---- MODULE Spec2Model ----
(***************************************************************************)
(* Model of the page script docs/js/main.js: the split-pane resize         *)
(* controller with its mouse, touch and viewport-resize listeners, the     *)
(* second set of touch listeners registered on DOMContentLoaded, the       *)
(* repository feed renderer fetchGitHubRepos, the Figma file list, the     *)
(* canvas animation (trailing dots, design-term labels), the parallax      *)
(* scroll handler, the reveal-section observer, the profile image modal    *)
(* and the mobile view switch. Each component has a specification of its   *)
(* own over the shared variables.                                          *)
(*                                                                         *)
(* CSS lengths are exact rationals n/d with a unit; the rounding of the    *)
(* JavaScript doubles that carry them is not modelled.                     *)
(***************************************************************************)
EXTENDS Integers, Sequences, FiniteSets, TLC

VARIABLES
    innerWidth,        \* window.innerWidth
    innerHeight,       \* window.innerHeight
    isDragging,        \* SplitPaneController.isDragging
    bodyCursor,        \* document.body.style.cursor
    primarySection,    \* inline style of #dev-section (primarySection, leftPanel)
    secondarySection,  \* inline style of #design-section (secondarySection, rightPanel)
    touchIsDragging,   \* isDragging of the DOMContentLoaded touch handlers
    startY,            \* startY of the DOMContentLoaded touch handlers
    startHeight,       \* startHeight of the DOMContentLoaded touch handlers
    dividerActive,     \* divider.classList contains 'active'
    touchTarget,       \* target of the touch in progress: "none", "divider", "other"
    lastEvent,         \* the event handled last, with what its listeners read and did
    hasDragged,        \* history: handleDragStart has run at least once
    grid,              \* content of #projects-grid
    pc,                \* position of each fetchGitHubRepos invocation
    response,          \* the HTTP exchange of each fetchGitHubRepos invocation
    gridExists,        \* the page has an element #projects-grid
    processed,         \* history: the invocations in the order they completed
    requests,          \* number of GET requests sent to the repository API
    designExists,      \* the page has an element #design-projects
    designGrid,        \* content of #design-projects
    figmaPc,           \* position of fetchRecentFigmaFiles
    figmaTodo,         \* projects of projectsData.projects the for loop has yet to visit
    allFiles,          \* allFiles of fetchRecentFigmaFiles
    figmaLog,          \* history: the failures the Figma requests have met
    mousePosition,     \* CanvasAnimationController.mousePosition
    lastTextPosition,  \* CanvasAnimationController.lastTextPosition
    usedWords,         \* CanvasAnimationController.usedWords
    renderedWords,     \* CanvasAnimationController.renderedWords: labels per term
    lastAttempt,       \* history: what the last frame's word generation did
    scrollY,           \* window.scrollY
    parallaxCallbacks, \* callbacks of setupParallaxEffect waiting for the next frame
    layerTransform,    \* style.transform of each .parallax-layer: its moveY
    recomputations,    \* history: how often the last frame recomputed the transforms
    modalClasses,      \* classList of #profile-modal (the classes the script handles)
    modalCallbacks,    \* callbacks toggleProfileImage has scheduled, oldest first
    dots,              \* CanvasAnimationController.dots: x and y in units of 1/DotUnit px
    dotFrames,         \* number of animation frames run since construction
    pendingFrames,     \* animateFrame callbacks waiting for the next frame
    frameSteps,        \* history: the calls the last animateFrame made, in order
    labelAlpha,        \* alpha of the labels of renderedWords, oldest first, in twentieths
    activeSections,    \* the .reveal-section elements whose classList contains 'active'
    lastEntries,       \* history: what the last observer callback reported per section
    devDisplay,        \* style.display of #dev-section
    designDisplay,     \* style.display of #design-section
    toggleLabel,       \* textContent of #toggle-section
    hasClicked         \* history: the toggle button has been clicked at least once

paneVars == <<innerWidth, innerHeight, isDragging, bodyCursor, primarySection,
              secondarySection, touchIsDragging, startY, startHeight,
              dividerActive, touchTarget, lastEvent, hasDragged>>
feedVars == <<grid, pc, response, gridExists, requests, processed>>
toggleVars == <<devDisplay, designDisplay, toggleLabel, hasClicked>>
revealVars == <<activeSections, lastEntries>>
dotVars == <<dots, dotFrames, pendingFrames, frameSteps>>
modalVars == <<modalClasses, modalCallbacks>>
scrollVars == <<scrollY, parallaxCallbacks, layerTransform, recomputations>>
wordVars == <<mousePosition, lastTextPosition, usedWords, renderedWords, lastAttempt>>
figmaVars == <<designExists, designGrid, figmaPc, figmaTodo, allFiles, figmaLog>>
vars == <<innerWidth, innerHeight, isDragging, bodyCursor, primarySection,
          secondarySection, touchIsDragging, startY, startHeight,
          dividerActive, touchTarget, lastEvent, hasDragged, grid, pc, response, gridExists, requests, processed,
          designExists, designGrid, figmaPc, figmaTodo, allFiles, figmaLog,
          mousePosition, lastTextPosition, usedWords, renderedWords, lastAttempt,
          scrollY, parallaxCallbacks, layerTransform, recomputations,
          modalClasses, modalCallbacks, dots, dotFrames, pendingFrames, frameSteps,
          labelAlpha, activeSections, lastEntries,
          devDisplay, designDisplay, toggleLabel, hasClicked>>

\* What each component leaves alone: the state of the other components.
notPaneVars == <<feedVars, figmaVars, wordVars, scrollVars, modalVars, dotVars, labelAlpha, revealVars,
    toggleVars>>
notFeedVars == <<paneVars, figmaVars, wordVars, scrollVars, modalVars, dotVars, labelAlpha, revealVars,
    toggleVars>>
notFigmaVars == <<paneVars, feedVars, wordVars, scrollVars, modalVars, dotVars, labelAlpha, revealVars,
    toggleVars>>
notWordVars == <<paneVars, feedVars, figmaVars, scrollVars, modalVars, dotVars, labelAlpha, revealVars,
    toggleVars>>
notScrollVars == <<paneVars, feedVars, figmaVars, wordVars, modalVars, dotVars, labelAlpha, revealVars,
    toggleVars>>
notDotVars == <<paneVars, feedVars, figmaVars, scrollVars, modalVars,
                lastTextPosition, usedWords, renderedWords, lastAttempt, labelAlpha,
                revealVars, toggleVars>>
notRevealVars == <<paneVars, feedVars, figmaVars, wordVars, scrollVars, modalVars, dotVars,
                   labelAlpha, toggleVars>>
notLabelVars == <<paneVars, feedVars, figmaVars, scrollVars, modalVars, dotVars, revealVars,
    toggleVars>>
notModalVars == <<paneVars, feedVars, figmaVars, wordVars, scrollVars, dotVars, labelAlpha, revealVars,
    toggleVars>>

----------------------------------------------------------------------------
(* Bounds of the model *)

MaxPointer == 2
MaxExtent == 2
MaxRepos == 2
MaxFiles == 3
MaxScrollEvents == 3
MaxCallbacks == 4
MaxDotFrames == 3
MaxLabels == 2

\* Pointer positions <<clientX, clientY>>, in px: each coordinate ranges from
\* before the container's origin to its far edge and beyond; the positions lie on
\* an anti-diagonal, so that clientX and clientY differ.
PointerPositions == {<<250 * k, 250 * (MaxPointer - 1 - k)>> : k \in -1..MaxPointer}
\* container.offsetWidth / container.offsetHeight, in px.
ContainerExtents == {500 * k : k \in 1..MaxExtent}
\* leftPanel.offsetHeight as read on touchstart, in px.
PanelHeights == {300}
\* Viewports (window.innerWidth, window.innerHeight) on both sides of the breakpoint.
Viewports == {<<1023, 600>>, <<1024, 768>>}

----------------------------------------------------------------------------
(* Rationals and CSS lengths *)

Abs(a) == IF a < 0 THEN -a ELSE a

RECURSIVE GCD(_, _)
GCD(a, b) == IF b = 0 THEN a ELSE GCD(b, a % b)

\* The rational n/d (d > 0) in lowest terms.
Rat(n, d) ==
    LET g == GCD(Abs(n), d)
    IN  IF n = 0 THEN [n |-> 0, d |-> 1] ELSE [n |-> n \div g, d |-> d \div g]

RLess(a, b) == a.n * b.d < b.n * a.d
RMin(a, b) == IF RLess(b, a) THEN b ELSE a
RMax(a, b) == IF RLess(a, b) THEN b ELSE a
RSub(a, b) == Rat(a.n * b.d - b.n * a.d, a.d * b.d)
RAdd(a, b) == Rat(a.n * b.d + b.n * a.d, a.d * b.d)

\* A CSS length: the value r with unit u ("%", "vh", "px"); Unset is the empty string.
Css(r, u) == [n |-> r.n, d |-> r.d, u |-> u]
Unset == [n |-> 0, d |-> 1, u |-> ""]
ValueOf(len) == [n |-> len.n, d |-> len.d]

NoStyle == [width |-> Unset, height |-> Unset, overflowY |-> "",
            webkitOverflowScrolling |-> ""]

----------------------------------------------------------------------------
(* SplitPaneController *)

MIN_SIZE_PERCENTAGE == 20
MAX_SIZE_PERCENTAGE == 80
DESKTOP_BREAKPOINT == 1024

isDesktopViewport == innerWidth >= DESKTOP_BREAKPOINT

getCursorStyle == IF isDesktopViewport THEN "col-resize" ELSE "row-resize"

getBoundedPercentage_NoFloor(percentage) ==
    RMin(Rat(MAX_SIZE_PERCENTAGE, 1), percentage)

\* Math.max(MIN_SIZE_PERCENTAGE, Math.min(MAX_SIZE_PERCENTAGE, percentage))
getBoundedPercentage(percentage) ==
    RMax(Rat(MIN_SIZE_PERCENTAGE, 1), RMin(Rat(MAX_SIZE_PERCENTAGE, 1), percentage))

\* A layout L is the pair of inline styles [primary, secondary].
handleHorizontalResize(L, clientX, containerWidth) ==
    LET percentage == Rat(clientX * 100, containerWidth)
        boundedPercentage == getBoundedPercentage(percentage)
    IN  [L EXCEPT !.primary.width = Css(boundedPercentage, "%"),
                  !.secondary.width = Css(RSub(Rat(100, 1), boundedPercentage), "%")]

handleVerticalResize_FromDragStart(L, clientY, containerHeight) ==
    LET percentage == Rat((startHeight + clientY - startY) * 100, containerHeight)
        boundedPercentage == getBoundedPercentage(percentage)
    IN  [L EXCEPT !.primary.height = Css(boundedPercentage, "vh"),
                  !.secondary.height = Css(RSub(Rat(100, 1), boundedPercentage), "vh")]

handleVerticalResize(L, clientY, containerHeight) ==
    LET percentage == Rat(clientY * 100, containerHeight)
        boundedPercentage == getBoundedPercentage(percentage)
    IN  [L EXCEPT !.primary.height = Css(boundedPercentage, "vh"),
                  !.secondary.height = Css(RSub(Rat(100, 1), boundedPercentage), "vh")]

\* e carries clientX, clientY and the container extent the handler reads.
handleDragMove(L, e) ==
    IF ~isDragging THEN L
    ELSE IF isDesktopViewport
         THEN handleHorizontalResize(L, e.clientX, e.extent)
         ELSE handleVerticalResize(L, e.clientY, e.extent)

resetDesktopLayout(L) ==
    [L EXCEPT !.primary.height = Css(Rat(100, 1), "%"),
              !.secondary.height = Css(Rat(100, 1), "%")]

resetMobileLayout_WidthOnly(L) ==
    [L EXCEPT !.primary.width = Css(Rat(100, 1), "%"),
              !.secondary.width = Css(Rat(100, 1), "%")]

resetMobileLayout(L) ==
    [L EXCEPT !.primary.width = Css(Rat(100, 1), "%"),
              !.primary.height = Css(Rat(50, 1), "vh"),
              !.primary.overflowY = "auto",
              !.primary.webkitOverflowScrolling = "touch",
              !.secondary.width = Css(Rat(100, 1), "%"),
              !.secondary.height = Css(Rat(50, 1), "vh"),
              !.secondary.overflowY = "auto",
              !.secondary.webkitOverflowScrolling = "touch"]

\* desktop is isDesktopViewport evaluated after the viewport has changed.
handleWindowResize(L, desktop) ==
    IF desktop THEN resetDesktopLayout(L) ELSE resetMobileLayout(L)

handleDragStart_NoCursor ==
    /\ isDragging' = TRUE
    /\ hasDragged' = TRUE
    /\ UNCHANGED bodyCursor

handleDragStart ==
    /\ isDragging' = TRUE
    /\ hasDragged' = TRUE
    /\ bodyCursor' = getCursorStyle

handleDragEnd_KeepDragging ==
    /\ UNCHANGED isDragging
    /\ bodyCursor' = "default"
    /\ UNCHANGED hasDragged

handleDragEnd ==
    /\ isDragging' = FALSE
    /\ bodyCursor' = "default"
    /\ UNCHANGED hasDragged

----------------------------------------------------------------------------
(* Touch handlers registered on DOMContentLoaded (their own isDragging) *)

Max(a, b) == IF a > b THEN a ELSE b
Min(a, b) == IF a < b THEN a ELSE b

touchstartHandler(clientY, offsetHeight) ==
    /\ touchIsDragging' = TRUE
    /\ startY' = clientY
    /\ startHeight' = offsetHeight
    /\ dividerActive' = TRUE

touchmoveHandler(L, clientY) ==
    IF ~touchIsDragging THEN L
    ELSE LET deltaY == clientY - startY
             newHeight == Max(100, Min(startHeight + deltaY, innerHeight - 100))
         IN  [L EXCEPT !.primary.height = Css(Rat(newHeight, 1), "px"),
                       !.secondary.height = Css(Rat(innerHeight - newHeight, 1), "px")]

touchendHandler ==
    /\ touchIsDragging' = FALSE
    /\ dividerActive' = FALSE
    /\ UNCHANGED <<startY, startHeight>>

----------------------------------------------------------------------------
(* Events of the split pane *)

Layout == [primary |-> primarySection, secondary |-> secondarySection]

SetLayout(L) ==
    /\ primarySection' = L.primary
    /\ secondarySection' = L.secondary

Event(type, x, y, extent, prevented) ==
    [type |-> type, clientX |-> x, clientY |-> y, extent |-> extent,
     defaultPrevented |-> prevented]

touchVars == <<touchIsDragging, startY, startHeight, dividerActive>>
viewportVars == <<innerWidth, innerHeight>>

\* mousedown on the divider
MouseDown ==
    /\ handleDragStart
    /\ lastEvent' = Event("mousedown", 0, 0, 0, FALSE)
    /\ UNCHANGED <<viewportVars, primarySection, secondarySection, touchVars, touchTarget>>
    /\ UNCHANGED notPaneVars

\* mousemove anywhere in the document
MouseMove ==
    /\ \E p \in PointerPositions, extent \in ContainerExtents :
          LET e == Event("mousemove", p[1], p[2], extent, FALSE)
          IN  /\ SetLayout(handleDragMove(Layout, e))
              /\ lastEvent' = e
    /\ UNCHANGED <<viewportVars, isDragging, bodyCursor, hasDragged, touchVars, touchTarget>>
    /\ UNCHANGED notPaneVars

\* mouseup anywhere in the document
MouseUp ==
    /\ handleDragEnd
    /\ lastEvent' = Event("mouseup", 0, 0, 0, FALSE)
    /\ UNCHANGED <<viewportVars, primarySection, secondarySection, touchVars, touchTarget>>
    /\ UNCHANGED notPaneVars

\* touchstart on the divider: both touchstart listeners of the divider run
TouchStartDivider ==
    /\ touchTarget = "none"
    /\ touchTarget' = "divider"
    /\ \E p \in PointerPositions, h \in PanelHeights :
          /\ touchstartHandler(p[2], h)
          /\ lastEvent' = Event("touchstart", p[1], p[2], 0, TRUE)
    /\ handleDragStart
    /\ UNCHANGED <<viewportVars, primarySection, secondarySection>>
    /\ UNCHANGED notPaneVars

\* touchstart outside the divider: no listener
TouchStartElsewhere ==
    /\ touchTarget = "none"
    /\ touchTarget' = "other"
    /\ lastEvent' = Event("touchstart", 0, 0, 0, FALSE)
    /\ UNCHANGED <<viewportVars, isDragging, bodyCursor, hasDragged,
                   primarySection, secondarySection, touchVars>>
    /\ UNCHANGED notPaneVars

\* touchmove: the divider's listener (when the touch began there), then the two
\* document listeners in the order of their registration
TouchMove ==
    /\ touchTarget # "none"
    /\ \E p \in PointerPositions, extent \in ContainerExtents :
          LET prevented == touchTarget = "divider" \/ touchIsDragging \/ isDragging
              e == Event("touchmove", p[1], p[2], extent, prevented)
          IN  /\ SetLayout(handleDragMove(touchmoveHandler(Layout, p[2]), e))
              /\ lastEvent' = e
    /\ UNCHANGED <<viewportVars, isDragging, bodyCursor, hasDragged, touchVars, touchTarget>>
    /\ UNCHANGED notPaneVars

\* touchend: both document listeners run
TouchEnd ==
    /\ touchTarget # "none"
    /\ touchTarget' = "none"
    /\ touchendHandler
    /\ handleDragEnd
    /\ lastEvent' = Event("touchend", 0, 0, 0, FALSE)
    /\ UNCHANGED <<viewportVars, primarySection, secondarySection>>
    /\ UNCHANGED notPaneVars

\* the viewport takes a new size and the resize listener runs
ViewportResize ==
    /\ \E v \in Viewports :
          /\ innerWidth' = v[1]
          /\ innerHeight' = v[2]
          /\ SetLayout(handleWindowResize(Layout, v[1] >= DESKTOP_BREAKPOINT))
    /\ lastEvent' = Event("resize", 0, 0, 0, FALSE)
    /\ UNCHANGED <<isDragging, bodyCursor, hasDragged, touchVars, touchTarget>>
    /\ UNCHANGED notPaneVars

----------------------------------------------------------------------------
(* fetchGitHubRepos: one invocation per DOMContentLoaded listener that calls it *)

Invocations == {1, 2}

\* HTTP statuses the repository API may answer with.
Statuses == {200, 201, 404, 500}
\* Parsed bodies: a JSON array of repositories, any other JSON value, or no JSON.
Bodies == {"array", "object", "invalid"}

NoResponse == [outcome |-> "pending", status |-> 0, body |-> "none", n |-> 0]

Spinner == [kind |-> "spinner", cards |-> 0, errors |-> 0, message |-> "", status |-> 0]

\* repos.map(repo => `<article>...`).join(''): one card per repository
RepoCards(n) == [kind |-> "cards", cards |-> n, errors |-> 0, message |-> "", status |-> 0]

ErrorBlock_UnlessCards(message, status) ==
    IF grid.kind = "cards" THEN grid
    ELSE [kind |-> "error", cards |-> 0, errors |-> 1, message |-> message, status |-> status]

\* the single error block; status is the code interpolated into the message
ErrorBlock(message, status) ==
    [kind |-> "error", cards |-> 0, errors |-> 1, message |-> message, status |-> status]

responseOk_Always(status) == TRUE

\* response.ok: the status is in the range 200-299
responseOk(status) == status >= 200 /\ status <= 299

\* Every DOMContentLoaded listener has run up to its first await.
Loaded == \A j \in Invocations : pc[j] # "start"

\* the synchronous start of fetchGitHubRepos: spinner, then the GET is issued; the
\* listeners of DOMContentLoaded run in the order of their registration
FetchStart(i) ==
    /\ pc[i] = "start"
    /\ \A j \in Invocations : j < i => pc[j] # "start"
    /\ IF gridExists
       THEN /\ grid' = Spinner
            /\ requests' = requests + 1
            /\ pc' = [pc EXCEPT ![i] = "awaitFetch"]
       ELSE \* projectsGrid is null: the assignment in the try block throws, and so
            \* does the one in the catch block; the promise of the call is rejected
            /\ pc' = [pc EXCEPT ![i] = "rejected"]
            /\ UNCHANGED <<grid, requests>>
    /\ UNCHANGED <<response, gridExists, processed>>
    /\ UNCHANGED notFeedVars

\* await fetch(...) rejects: the catch block renders error.message
FetchRejects(i) ==
    /\ Loaded
    /\ pc[i] = "awaitFetch"
    /\ response' = [response EXCEPT ![i].outcome = "rejected"]
    /\ grid' = ErrorBlock("Error loading projects: Failed to fetch", 0)
    /\ pc' = [pc EXCEPT ![i] = "done"]
    /\ processed' = Append(processed, i)
    /\ UNCHANGED <<gridExists, requests>>
    /\ UNCHANGED notFeedVars

\* await fetch(...) resolves with a status: !response.ok throws into the catch block
FetchResolves(i) ==
    /\ Loaded
    /\ pc[i] = "awaitFetch"
    /\ \E status \in Statuses :
          /\ response' = [response EXCEPT ![i].outcome = "resolved", ![i].status = status]
          /\ IF responseOk(status)
             THEN /\ pc' = [pc EXCEPT ![i] = "awaitJson"]
                  /\ UNCHANGED <<grid, processed>>
             ELSE /\ pc' = [pc EXCEPT ![i] = "done"]
                  /\ processed' = Append(processed, i)
                  /\ grid' = ErrorBlock("Error loading projects: GitHub API error: status", status)
    /\ UNCHANGED <<gridExists, requests>>
    /\ UNCHANGED notFeedVars

\* await response.json() settles: an array is rendered as cards, any other value as
\* the invalid-data block, and a rejection goes to the catch block
JsonSettles(i) ==
    /\ pc[i] = "awaitJson"
    /\ \E body \in Bodies, n \in 0..MaxRepos :
          /\ body # "array" => n = 0
          /\ response' = [response EXCEPT ![i].body = body, ![i].n = n]
          /\ grid' = CASE body = "array" -> RepoCards(n)
                       [] body = "object" ->
                            ErrorBlock("Error: Could not load projects. Invalid data received from GitHub API.", 0)
                       [] OTHER -> ErrorBlock("Error loading projects: Unexpected token", 0)
    /\ pc' = [pc EXCEPT ![i] = "done"]
    /\ processed' = Append(processed, i)
    /\ UNCHANGED <<gridExists, requests>>
    /\ UNCHANGED notFeedVars

----------------------------------------------------------------------------
(* fetchRecentFigmaFiles and getFigmaProjectFiles *)

RECENT_FILES == 5

\* last_modified of a file, as the number new Date(...) gives; a file is modelled
\* by this value and its card shows it.
Stamps == {1, 2, 3}
\* Number of entries of projectsData.projects.
TeamSizes == {0, 1, 2}
\* A response body: unparsable, JSON without the expected array, or JSON with it.
Payloads == {"invalid", "noarray", "array"}

RECURSIVE FileLists(_)
\* The lists of at most n files.
FileLists(n) ==
    IF n = 0 THEN {<< >>}
    ELSE LET shorter == FileLists(n - 1)
         IN  shorter \cup {Append(l, t) : l \in {x \in shorter : Len(x) = n - 1}, t \in Stamps}

DesignStatic == [kind |-> "static", cards |-> << >>]
DesignSpinner == [kind |-> "spinner", cards |-> << >>]
DesignError == [kind |-> "error", cards |-> << >>]

\* files.map(file => renderFigmaProject(file)).join(''): one card per file, in order
renderFigmaProjects(files) == [kind |-> "cards", cards |-> files]

RECURSIVE SortByModified(_)
\* Array.prototype.sort with (a, b) => new Date(b.last_modified) - new Date(a.last_modified):
\* a stable sort, the most recently modified first.
SortByModified(files) ==
    IF files = << >> THEN << >>
    ELSE LET n == Len(files)
             sorted == SortByModified(SubSeq(files, 1, n - 1))
             x == files[n]
             before == Cardinality({i \in 1..(n - 1) : sorted[i] >= x})
         IN  SubSeq(sorted, 1, before) \o <<x>> \o SubSeq(sorted, before + 1, n - 1)

recentFiles_Unsorted(files) ==
    SubSeq(files, 1, Min(RECENT_FILES, Len(files)))

\* allFiles.sort(...).slice(0, 5)
recentFiles(files) ==
    SubSeq(SortByModified(files), 1, Min(RECENT_FILES, Len(files)))

\* What getFigmaProjectFiles returns once response.json() has settled: data.files
\* (undefined when the payload has no files array), or [] from its catch block when
\* the body does not parse.
filesReturned(payload, files) ==
    CASE payload = "array" -> [value |-> "files", files |-> files]
      [] payload = "noarray" -> [value |-> "undefined", files |-> << >>]
      [] OTHER -> [value |-> "files", files |-> << >>]

\* The for loop after one project: the next getFigmaProjectFiles call, or the
\* sort, slice and render when no project is left.
AfterProject(files, todo) ==
    IF todo = 0
    THEN /\ figmaPc' = "done"
         /\ designGrid' = renderFigmaProjects(recentFiles(files))
    ELSE /\ figmaPc' = "awaitFiles"
         /\ UNCHANGED designGrid

\* the catch block of fetchRecentFigmaFiles
FigmaCatch ==
    /\ figmaPc' = "done"
    /\ designGrid' = DesignError

\* fetchRecentFigmaFiles up to its first await; nothing happens without the container
FigmaStart ==
    /\ figmaPc = "start"
    /\ IF designExists
       THEN /\ designGrid' = DesignSpinner
            /\ figmaPc' = "awaitTeam"
       ELSE /\ figmaPc' = "returned"
            /\ UNCHANGED designGrid
    /\ UNCHANGED <<designExists, figmaTodo, allFiles, figmaLog>>
    /\ UNCHANGED notFigmaVars

\* await fetch(.../teams/.../projects) rejects
TeamFetchRejects ==
    /\ figmaPc = "awaitTeam"
    /\ FigmaCatch
    /\ figmaLog' = figmaLog \cup {"team: fetch rejected"}
    /\ UNCHANGED <<designExists, figmaTodo, allFiles>>
    /\ UNCHANGED notFigmaVars

\* await fetch(...) resolves, whatever the status: await projectsResponse.json()
TeamFetchResolves ==
    /\ figmaPc = "awaitTeam"
    /\ figmaPc' = "awaitTeamJson"
    /\ UNCHANGED <<designExists, designGrid, figmaTodo, allFiles, figmaLog>>
    /\ UNCHANGED notFigmaVars

\* await projectsResponse.json() settles; for ... of projectsData.projects throws
\* when the payload has no projects array
TeamJsonSettles ==
    /\ figmaPc = "awaitTeamJson"
    /\ \E payload \in Payloads, n \in TeamSizes :
          IF payload = "array"
          THEN /\ figmaTodo' = n
               /\ AfterProject(allFiles, n)
               /\ UNCHANGED figmaLog
          ELSE /\ FigmaCatch
               /\ figmaLog' = figmaLog \cup {IF payload = "invalid"
                                             THEN "team: body not JSON"
                                             ELSE "team: no projects array"}
               /\ UNCHANGED figmaTodo
    /\ UNCHANGED <<designExists, allFiles>>
    /\ UNCHANGED notFigmaVars

\* getFigmaProjectFiles: await fetch(...) rejects, its catch block returns []
FilesFetchRejects ==
    /\ figmaPc = "awaitFiles"
    /\ figmaTodo' = figmaTodo - 1
    /\ AfterProject(allFiles, figmaTodo - 1)
    /\ figmaLog' = figmaLog \cup {"files: fetch rejected"}
    /\ UNCHANGED <<designExists, allFiles>>
    /\ UNCHANGED notFigmaVars

\* getFigmaProjectFiles: await fetch(...) resolves, whatever the status
FilesFetchResolves ==
    /\ figmaPc = "awaitFiles"
    /\ figmaPc' = "awaitFilesJson"
    /\ UNCHANGED <<designExists, designGrid, figmaTodo, allFiles, figmaLog>>
    /\ UNCHANGED notFigmaVars

\* getFigmaProjectFiles: await response.json() settles and the function returns;
\* allFiles.push(...files) throws when files is undefined
FilesJsonSettles ==
    /\ figmaPc = "awaitFilesJson"
    /\ \E payload \in Payloads, files \in FileLists(MaxFiles) :
          /\ payload # "array" => files = << >>
          /\ LET returned == filesReturned(payload, files)
             IN  IF returned.value = "undefined"
                 THEN /\ FigmaCatch
                      /\ UNCHANGED <<figmaTodo, allFiles>>
                 ELSE /\ allFiles' = allFiles \o returned.files
                      /\ figmaTodo' = figmaTodo - 1
                      /\ AfterProject(allFiles \o returned.files, figmaTodo - 1)
          /\ figmaLog' = IF payload = "array" THEN figmaLog
                         ELSE figmaLog \cup {IF payload = "invalid"
                                             THEN "files: body not JSON"
                                             ELSE "files: no files array"}
    /\ UNCHANGED designExists
    /\ UNCHANGED notFigmaVars

InitFigma ==
    /\ designExists = TRUE
    /\ designGrid = DesignStatic
    /\ figmaPc = "start"
    /\ figmaTodo = 0
    /\ allFiles = << >>
    /\ figmaLog = {}

NextFigma ==
    \/ FigmaStart
    \/ TeamFetchRejects
    \/ TeamFetchResolves
    \/ TeamJsonSettles
    \/ FilesFetchRejects
    \/ FilesFetchResolves
    \/ FilesJsonSettles

----------------------------------------------------------------------------
(* CanvasAnimationController: the design-term labels *)

designTerms ==
    {"UI Designer", "UX Design", "Motion", "Prototype", "Wireframe", "User Flow",
     "Research", "Figma", "Design System", "User Testing", "Interaction"}

MIN_TEXT_DISTANCE == 150
TEXT_OFFSET_X == 30

\* Pointer positions relative to the canvas: (60, 120) puts the label at (90, 120),
\* exactly 150 px from the origin; from there (0, 0) puts it 134 px away.
CanvasPointers == {<<0, 0>>, <<60, 120>>, <<300, 0>>}

tooClose_Within100(x, y) ==
    (x - lastTextPosition[1]) * (x - lastTextPosition[1])
        + (y - lastTextPosition[2]) * (y - lastTextPosition[2]) < 100 * 100

\* Math.hypot(x - lastTextPosition.x, y - lastTextPosition.y) < 150, on squares
tooClose(x, y) ==
    (x - lastTextPosition[1]) * (x - lastTextPosition[1])
        + (y - lastTextPosition[2]) * (y - lastTextPosition[2])
            < MIN_TEXT_DISTANCE * MIN_TEXT_DISTANCE

availableTerms_All == designTerms

\* this.designTerms.filter(term => !this.usedWords.has(term))
availableTerms == designTerms \ usedWords

\* addText(x, y); Math.random picks the term among the available ones
addText(x, y) ==
    IF tooClose(x, y)
    THEN /\ lastAttempt' = "tooClose"
         /\ UNCHANGED <<lastTextPosition, usedWords, renderedWords>>
    ELSE IF availableTerms = {}
    THEN /\ usedWords' = {}
         /\ lastAttempt' = "cleared"
         /\ UNCHANGED <<lastTextPosition, renderedWords>>
    ELSE \E text \in availableTerms :
            /\ renderedWords' = [renderedWords EXCEPT ![text] = @ + 1]
            /\ usedWords' = usedWords \cup {text}
            /\ lastTextPosition' = <<x, y>>
            /\ lastAttempt' = "placed"

\* the mousemove listener of the canvas
CanvasMouseMove ==
    /\ \E p \in CanvasPointers : mousePosition' = p
    /\ UNCHANGED <<lastTextPosition, usedWords, renderedWords, lastAttempt>>
    /\ UNCHANGED notWordVars

\* handleWordGeneration in one animation frame; gate is Math.random() > 0.95
WordFrame ==
    /\ \E gate \in BOOLEAN :
          IF gate /\ Cardinality(usedWords) < Cardinality(designTerms)
          THEN addText(mousePosition[1] + TEXT_OFFSET_X, mousePosition[2])
          ELSE /\ lastAttempt' = IF gate THEN "skipped" ELSE "none"
               /\ UNCHANGED <<lastTextPosition, usedWords, renderedWords>>
    /\ UNCHANGED mousePosition
    /\ UNCHANGED notWordVars

InitWords ==
    /\ mousePosition = <<0, 0>>
    /\ lastTextPosition = <<0, 0>>
    /\ usedWords = {}
    /\ renderedWords = [t \in designTerms |-> 0]
    /\ lastAttempt = "none"

NextWords ==
    \/ CanvasMouseMove
    \/ WordFrame

----------------------------------------------------------------------------
(* ScrollObserverController.setupParallaxEffect *)

\* The .parallax-layer elements: one with data-depth="0.5", one without data-depth.
ParallaxLayers == {"configured", "plain"}
ScrollOffsets == {0, 35, 100, 240}

NoTransform == [n |-> 0, d |-> 1]

\* layer.dataset.depth || 0.1
layerDepth(layer) ==
    IF layer = "configured" THEN Rat(1, 2) ELSE Rat(1, 10)

\* window.scrollY * depth
moveY(layer) == Rat(scrollY * layerDepth(layer).n, layerDepth(layer).d)

\* a scroll event: the listener asks for an animation frame
ScrollEvent ==
    /\ parallaxCallbacks < MaxScrollEvents
    /\ \E y \in ScrollOffsets : scrollY' = y
    /\ parallaxCallbacks' = parallaxCallbacks + 1
    /\ UNCHANGED <<layerTransform, recomputations>>
    /\ UNCHANGED notScrollVars

\* the next frame runs every callback that was requested, one after the other;
\* each one sets the transform of every layer
ParallaxFrame ==
    /\ parallaxCallbacks > 0
    /\ layerTransform' = [layer \in ParallaxLayers |-> moveY(layer)]
    /\ recomputations' = parallaxCallbacks
    /\ parallaxCallbacks' = 0
    /\ UNCHANGED scrollY
    /\ UNCHANGED notScrollVars

InitScroll ==
    /\ scrollY = 0
    /\ parallaxCallbacks = 0
    /\ layerTransform = [layer \in ParallaxLayers |-> NoTransform]
    /\ recomputations = 0

NextScroll ==
    \/ ScrollEvent
    \/ ParallaxFrame

----------------------------------------------------------------------------
(* window.toggleProfileImage *)

\* The classes toggleProfileImage removes to show the modal and adds to hide it.
PoseClasses == {"translate-y-full", "opacity-0"}

\* toggleProfileImage(): opening asks for an animation frame, closing sets a timer
ToggleProfileImage ==
    /\ Len(modalCallbacks) < MaxCallbacks
    /\ IF "hidden" \in modalClasses
       THEN /\ modalClasses' = modalClasses \ {"hidden"}
            /\ modalCallbacks' = Append(modalCallbacks, "frame")
       ELSE /\ modalClasses' = modalClasses \cup PoseClasses
            /\ modalCallbacks' = Append(modalCallbacks, "timer")
    /\ UNCHANGED notModalVars

Without(seq, i) == SubSeq(seq, 1, i - 1) \o SubSeq(seq, i + 1, Len(seq))

\* the oldest requestAnimationFrame callback runs (the next frame, whatever timers
\* are still waiting)
ModalFrame ==
    /\ \E i \in DOMAIN modalCallbacks :
          /\ modalCallbacks[i] = "frame"
          /\ \A j \in 1..(i - 1) : modalCallbacks[j] # "frame"
          /\ modalCallbacks' = Without(modalCallbacks, i)
    /\ modalClasses' = modalClasses \ PoseClasses
    /\ UNCHANGED notModalVars

\* the oldest callback is a 300 ms timer and it expires: frames requested before
\* it was set have run by then
ModalTimer ==
    /\ modalCallbacks # << >>
    /\ modalCallbacks[1] = "timer"
    /\ modalCallbacks' = Tail(modalCallbacks)
    /\ modalClasses' = modalClasses \cup {"hidden"}
    /\ UNCHANGED notModalVars

\* the closed modal, as the closing branch and its timer leave it
InitModal ==
    /\ modalClasses = {"hidden"} \cup PoseClasses
    /\ modalCallbacks = << >>

NextModal ==
    \/ ToggleProfileImage
    \/ ModalFrame
    \/ ModalTimer

----------------------------------------------------------------------------
(* CanvasAnimationController: the trailing dots and the animation loop *)

NUM_DOTS == 5

RECURSIVE Pow(_, _)
Pow(b, e) == IF e = 0 THEN 1 ELSE b * Pow(b, e - 1)

\* Dot coordinates are kept exactly, as integers in units of 1/DotUnit px: a frame
\* moves a dot by (5 + i)/50 of its offset, so MaxDotFrames frames need 50^MaxDotFrames.
DotUnit == Pow(50, MaxDotFrames)

dotSpeed_NoBase(i) == i

\* speed: 0.1 + (i * 0.02), in fiftieths
dotSpeed(i) == 5 + i

\* createDots: NUM_DOTS dots at the pointer position, dot i (from 0) at place i + 1
createDots ==
    [j \in 1..NUM_DOTS |-> [x |-> mousePosition[1] * DotUnit,
                            y |-> mousePosition[2] * DotUnit]]

\* updateDots: dot.x += (mousePosition.x - dot.x) * dot.speed, and the same for y
updateDots ==
    [j \in 1..NUM_DOTS |->
        [x |-> dots[j].x + ((mousePosition[1] * DotUnit - dots[j].x) \div 50) * dotSpeed(j - 1),
         y |-> dots[j].y + ((mousePosition[2] * DotUnit - dots[j].y) \div 50) * dotSpeed(j - 1)]]

requestAnimationFrame_Twice(pending) == pending + 2

\* requestAnimationFrame(animateFrame): one more callback waits for the next frame
requestAnimationFrame(pending) == pending + 1

\* animateFrame, as far as the dots and the loop go: the pending callback runs,
\* moves the dots and asks for the next frame
AnimateFrame ==
    /\ pendingFrames > 0
    /\ dotFrames < MaxDotFrames
    /\ dots' = updateDots
    /\ frameSteps' = <<"clearRect", "updateDots", "drawDots", "handleWordGeneration",
                       "drawWords", "requestAnimationFrame">>
    /\ pendingFrames' = requestAnimationFrame(pendingFrames - 1)
    /\ dotFrames' = dotFrames + 1
    /\ UNCHANGED mousePosition
    /\ UNCHANGED notDotVars

\* the constructor has run createDots and startAnimation: animateFrame has run once
\* with the dots on the pointer and has asked for the next frame
InitDots ==
    /\ dots = createDots
    /\ dotFrames = 0
    /\ pendingFrames = 1
    /\ frameSteps = <<"clearRect", "updateDots", "drawDots", "handleWordGeneration",
                      "drawWords", "requestAnimationFrame">>

NextDots ==
    \/ CanvasMouseMove
    \/ AnimateFrame

----------------------------------------------------------------------------
(* CanvasAnimationController: the fading in of the labels *)

\* alpha is counted in steps of 0.05: 20 steps make alpha 1
ALPHA_FULL == 20

drawWords_NoCeiling(alphas) ==
    [i \in DOMAIN alphas |-> alphas[i] + 1]

\* drawWords: if (word.alpha < 1) word.alpha += 0.05, for every label
drawWords(alphas) ==
    [i \in DOMAIN alphas |-> IF alphas[i] < ALPHA_FULL THEN alphas[i] + 1 ELSE alphas[i]]

\* animateFrame, as far as the labels go: handleWordGeneration may push a label
\* with alpha 0, then drawWords runs over all labels. Math.random is held to
\* passing the gate at most MaxLabels times and to one choice of term.
LabelFrame ==
    /\ \E gate \in BOOLEAN :
          /\ gate => Len(labelAlpha) < MaxLabels
          /\ IF gate /\ Cardinality(usedWords) < Cardinality(designTerms)
             THEN /\ addText(mousePosition[1] + TEXT_OFFSET_X, mousePosition[2])
                  /\ usedWords' \subseteq usedWords \cup {CHOOSE t \in availableTerms : TRUE}
             ELSE /\ lastAttempt' = IF gate THEN "skipped" ELSE "none"
                  /\ UNCHANGED <<lastTextPosition, usedWords, renderedWords>>
    /\ labelAlpha' = IF renderedWords' # renderedWords
                     THEN drawWords(Append(labelAlpha, 0))
                     ELSE drawWords(labelAlpha)
    /\ UNCHANGED mousePosition
    /\ UNCHANGED notLabelVars

InitLabels == labelAlpha = << >>

NextLabels ==
    \/ CanvasMouseMove
    \/ LabelFrame

----------------------------------------------------------------------------
(* ScrollObserverController: the reveal sections *)

\* The elements document.querySelectorAll('.reveal-section') finds.
RevealSections == {"about", "projects", "contact"}

handleSectionIntersection_Toggle(active, section, isIntersecting) ==
    IF isIntersecting THEN active \cup {section} ELSE active \ {section}

\* handleSectionIntersection(entry): if (entry.isIntersecting) classList.add('active')
handleSectionIntersection(active, section, isIntersecting) ==
    IF isIntersecting THEN active \cup {section} ELSE active

RECURSIVE forEachEntry(_, _, _)
\* entries.forEach(entry => this.handleSectionIntersection(entry))
forEachEntry(active, targets, entries) ==
    IF targets = {} THEN active
    ELSE LET section == CHOOSE t \in targets : TRUE
         IN  forEachEntry(handleSectionIntersection(active, section, entries[section]),
                          targets \ {section}, entries)

\* the IntersectionObserver callback, with entries for some of the sections
SectionsObserved ==
    /\ \E targets \in (SUBSET RevealSections) \ {{}} :
          \E entries \in [targets -> BOOLEAN] :
              /\ activeSections' = forEachEntry(activeSections, targets, entries)
              /\ lastEntries' = [section \in RevealSections |->
                                    IF section \notin targets THEN "none"
                                    ELSE IF entries[section] THEN "intersecting"
                                    ELSE "notIntersecting"]
    /\ UNCHANGED notRevealVars

InitReveal ==
    /\ activeSections = {}
    /\ lastEntries = [section \in RevealSections |-> "none"]

NextReveal == SectionsObserved

----------------------------------------------------------------------------
(* The mobile view switch: the click listener of #toggle-section *)

toggleSection_HideDesign(design) ==
    [design |-> "none", dev |-> "block", label |-> "Switch to UI/UX Portfolio"]

\* the body of the click listener, from designSection.style.display
toggleSection(design) ==
    IF design = "none"
    THEN [design |-> "block", dev |-> "none", label |-> "Switch to Dev Portfolio"]
    ELSE [design |-> "none", dev |-> "block", label |-> "Switch to UI/UX Portfolio"]

\* a click on the toggle button
ToggleClick ==
    /\ designDisplay' = toggleSection(designDisplay).design
    /\ devDisplay' = toggleSection(designDisplay).dev
    /\ toggleLabel' = toggleSection(designDisplay).label
    /\ hasClicked' = TRUE
    /\ lastEvent' = Event("click", 0, 0, 0, FALSE)
    /\ UNCHANGED <<viewportVars, isDragging, bodyCursor, primarySection, secondarySection,
                   hasDragged, touchVars, touchTarget>>
    /\ UNCHANGED <<feedVars, figmaVars, wordVars, scrollVars, modalVars, dotVars,
                   labelAlpha, revealVars>>

\* no inline display on the sections, the button with the text of the page
InitToggle ==
    /\ devDisplay = ""
    /\ designDisplay = ""
    /\ toggleLabel = ""
    /\ hasClicked = FALSE

\* the view switch next to the other listeners that act on the two sections below
\* and across the breakpoint
NextToggle ==
    \/ ToggleClick
    \/ ViewportResize
    \/ MouseDown
    \/ MouseUp

InitFeed ==
    /\ grid = [kind |-> "static", cards |-> 0, errors |-> 0, message |-> "", status |-> 0]
    /\ pc = [i \in Invocations |-> "start"]
    /\ response = [i \in Invocations |-> NoResponse]
    /\ gridExists = TRUE
    /\ requests = 0
    /\ processed = << >>

InitPane ==
    /\ \E v \in Viewports : innerWidth = v[1] /\ innerHeight = v[2]
    /\ isDragging = FALSE
    /\ bodyCursor = ""
    /\ primarySection = NoStyle
    /\ secondarySection = NoStyle
    /\ touchIsDragging = FALSE
    /\ startY = 0
    /\ startHeight = 0
    /\ dividerActive = FALSE
    /\ touchTarget = "none"
    /\ lastEvent = Event("load", 0, 0, 0, FALSE)
    /\ hasDragged = FALSE

Init == InitPane /\ InitFeed /\ InitFigma /\ InitWords /\ InitScroll
        /\ InitModal /\ InitDots /\ InitLabels
        /\ InitReveal /\ InitToggle

NextPane ==
    \/ MouseDown
    \/ MouseMove
    \/ MouseUp
    \/ TouchStartDivider
    \/ TouchStartElsewhere
    \/ TouchMove
    \/ TouchEnd
    \/ ViewportResize

SpecPane == Init /\ [][NextPane]_vars

NextFeed ==
    \E i \in Invocations :
        \/ FetchStart(i)
        \/ FetchRejects(i)
        \/ FetchResolves(i)
        \/ JsonSettles(i)

SpecFeed == Init /\ [][NextFeed]_vars

SpecFigma == Init /\ [][NextFigma]_vars

SpecWords == Init /\ [][NextWords]_vars

SpecScroll == Init /\ [][NextScroll]_vars

SpecModal == Init /\ [][NextModal]_vars

SpecDots == Init /\ [][NextDots]_vars

SpecLabels == Init /\ [][NextLabels]_vars

SpecReveal == Init /\ [][NextReveal]_vars

SpecToggle == Init /\ [][NextToggle]_vars

\* Animation frames keep coming, and frames in which Math.random() passes the gate
\* while the pointer is far from the last label keep coming as long as they can.
FarFrame ==
    /\ WordFrame
    /\ ~tooClose(mousePosition[1] + TEXT_OFFSET_X, mousePosition[2])
    /\ lastAttempt' # "none"

SpecWordsFair == SpecWords /\ WF_vars(WordFrame) /\ SF_vars(FarFrame)

\* A page that lacks #projects-grid, #design-projects or both.
InitContainers ==
    /\ InitPane
    /\ InitWords
    /\ InitScroll
    /\ InitModal
    /\ InitDots
    /\ InitLabels
    /\ InitReveal
    /\ InitToggle
    /\ grid = [kind |-> "static", cards |-> 0, errors |-> 0, message |-> "", status |-> 0]
    /\ pc = [i \in Invocations |-> "start"]
    /\ response = [i \in Invocations |-> NoResponse]
    /\ requests = 0
    /\ processed = << >>
    /\ designGrid = DesignStatic
    /\ figmaPc = "start"
    /\ figmaTodo = 0
    /\ allFiles = << >>
    /\ figmaLog = {}
    /\ gridExists \in BOOLEAN
    /\ designExists \in BOOLEAN
    /\ ~(gridExists /\ designExists)

NextContainers == NextFeed \/ NextFigma

SpecContainers == InitContainers /\ [][NextContainers]_vars

----------------------------------------------------------------------------
(* Properties of the split pane *)

MoveEvents == {"mousemove", "touchmove"}
Hundred == Rat(100, 1)

\* The sizes along the axis that drag-moves resize at the current viewport width.
ActivePrimary == IF isDesktopViewport THEN primarySection.width ELSE primarySection.height
ActiveSecondary == IF isDesktopViewport THEN secondarySection.width ELSE secondarySection.height
ActiveUnit == IF isDesktopViewport THEN "%" ELSE "vh"

\* Two lengths that together fill the axis: percentages (or vh) adding up to 100,
\* or pixel heights adding up to the viewport height.
Complementary(a, b) ==
    /\ a.u = b.u
    /\ \/ a.u \in {"%", "vh"} /\ RAdd(ValueOf(a), ValueOf(b)) = Hundred
       \/ a.u = "px" /\ RAdd(ValueOf(a), ValueOf(b)) = Rat(innerHeight, 1)

\* C1: after every drag-move handled while the controller is Dragging, whatever the
\* pointer position and the container extent, the primary section's size on the
\* active axis is a percentage within [20, 80] and the secondary section's size on
\* that axis is 100 minus it.
C1_BoundedPercentage ==
    (lastEvent.type \in MoveEvents /\ isDragging) =>
        /\ ActivePrimary.u = ActiveUnit
        /\ ActiveSecondary.u = ActiveUnit
        /\ ~RLess(ValueOf(ActivePrimary), Rat(MIN_SIZE_PERCENTAGE, 1))
        /\ ~RLess(Rat(MAX_SIZE_PERCENTAGE, 1), ValueOf(ActivePrimary))
        /\ ValueOf(ActiveSecondary) = RSub(Hundred, ValueOf(ActivePrimary))

\* C1 witness: a mouse drag-move left of the container is clamped to the minimum.
C1_Witness ==
    /\ lastEvent.type = "mousemove"
    /\ isDragging
    /\ isDesktopViewport
    /\ lastEvent.clientX < 0
    /\ primarySection.width = Css(Rat(MIN_SIZE_PERCENTAGE, 1), "%")

\* C2 (as claimed): once the script has sized the sections along the active axis,
\* their two sizes on that axis add up to 100% of it, in every reachable state.
C2_ActiveAxisSumsTo100 ==
    (ActivePrimary # Unset \/ ActiveSecondary # Unset) =>
        Complementary(ActivePrimary, ActiveSecondary)

\* C3: isDragging is a boolean; it becomes true only on mousedown or touchstart on
\* the divider, is false after every mouseup and touchend, and is left as it was by
\* mousemove, touchmove and resize.
C3_DragStateMachine ==
    /\ [](isDragging \in BOOLEAN)
    /\ [][/\ (~isDragging /\ isDragging') =>
                \/ lastEvent'.type = "mousedown"
                \/ lastEvent'.type = "touchstart" /\ touchTarget' = "divider"
          /\ lastEvent'.type \in {"mouseup", "touchend"} => ~isDragging'
          /\ lastEvent'.type \in MoveEvents \cup {"resize"} => isDragging' = isDragging
         ]_vars

\* C3 witness: a drag begun by touch has been ended by touchend.
C3_Witness ==
    /\ hasDragged
    /\ ~isDragging
    /\ lastEvent.type = "touchend"

\* C4 (as claimed): a mousemove or touchmove handled while the controller is Idle
\* leaves the width and height of both sections unchanged.
C4_IdleMoveChangesNothing ==
    [][(~isDragging /\ lastEvent'.type \in MoveEvents) =>
          /\ primarySection'.width = primarySection.width
          /\ primarySection'.height = primarySection.height
          /\ secondarySection'.width = secondarySection.width
          /\ secondarySection'.height = secondarySection.height]_vars

\* C5 (as claimed): a drag-move at viewport width >= 1024 sets the widths from
\* clientX over the container width and leaves the heights; a drag-move below 1024
\* sets the heights from clientY over the container height and leaves the widths.
C5_DragMoveAxis ==
    [][(isDragging /\ lastEvent'.type \in MoveEvents) =>
          LET e == lastEvent'
              x == getBoundedPercentage(Rat(e.clientX * 100, e.extent))
              y == getBoundedPercentage(Rat(e.clientY * 100, e.extent))
          IN  IF innerWidth >= DESKTOP_BREAKPOINT
              THEN /\ primarySection'.width = Css(x, "%")
                   /\ secondarySection'.width = Css(RSub(Hundred, x), "%")
                   /\ primarySection'.height = primarySection.height
                   /\ secondarySection'.height = secondarySection.height
              ELSE /\ primarySection'.height = Css(y, "vh")
                   /\ secondarySection'.height = Css(RSub(Hundred, y), "vh")
                   /\ primarySection'.width = primarySection.width
                   /\ secondarySection'.width = secondarySection.width]_vars

\* The layout a viewport resize gives a page nothing else has touched.
FreshLayout == [primary |-> NoStyle, secondary |-> NoStyle]

\* C6 (as claimed): right after a viewport resize the layout of both sections is a
\* function of the side of the breakpoint alone.  The run that resizes an untouched
\* page is reachable, so that function can only be the reset of the untouched page.
C6_ResizeLayoutDependsOnModeOnly ==
    lastEvent.type = "resize" =>
        Layout = handleWindowResize(FreshLayout, isDesktopViewport)

C8_TouchDefaults ==
    /\ (lastEvent.type = "touchstart" /\ touchTarget = "divider") => lastEvent.defaultPrevented
    /\ lastEvent.type = "touchmove" => (lastEvent.defaultPrevented <=> isDragging)
    /\ lastEvent.type = "touchend" => ~isDragging

\* C9: handleDragStart sets the cursor to col-resize at viewport width >= 1024 and to
\* row-resize below; every drag end sets it to default; so the cursor is a resize
\* cursor whenever Dragging and default whenever Idle after a drag.
C9_Cursor ==
    /\ [](isDragging => bodyCursor \in {"col-resize", "row-resize"})
    /\ []((~isDragging /\ hasDragged) => bodyCursor = "default")
    /\ [][/\ (lastEvent'.type = "mousedown"
                \/ (lastEvent'.type = "touchstart" /\ touchTarget' = "divider")) =>
                bodyCursor' = IF innerWidth >= DESKTOP_BREAKPOINT
                              THEN "col-resize" ELSE "row-resize"
          /\ lastEvent'.type \in {"mouseup", "touchend"} => bodyCursor' = "default"
         ]_vars

\* C9 witness: a drag begun below the breakpoint shows the row-resize cursor.
C9_Witness ==
    /\ isDragging
    /\ ~isDesktopViewport
    /\ lastEvent.type = "mousedown"
    /\ bodyCursor = "row-resize"

----------------------------------------------------------------------------
(* Properties of the repository feed *)

\* C10: the step that completes an invocation of fetchGitHubRepos leaves the grid
\* with exactly n cards and no error block when the response was 2xx with an array
\* of n repositories, and with exactly one error block and no card otherwise; for a
\* non-2xx status the error message carries the status code.
C10_FeedOutcome ==
    [][\A i \in Invocations :
          (pc[i] # "done" /\ pc'[i] = "done") =>
              LET r == response'[i]
                  success == /\ r.outcome = "resolved"
                             /\ r.status >= 200 /\ r.status <= 299
                             /\ r.body = "array"
              IN  /\ success => grid'.cards = r.n /\ grid'.errors = 0
                  /\ ~success => grid'.cards = 0 /\ grid'.errors = 1
                  /\ (r.outcome = "resolved" /\ ~(r.status >= 200 /\ r.status <= 299)) =>
                        grid'.status = r.status
      ]_vars

\* C10 witness: an invocation has completed on a 2xx response with the empty array.
C10_Witness ==
    \E i \in Invocations :
        /\ pc[i] = "done"
        /\ response[i].outcome = "resolved"
        /\ response[i].body = "array"
        /\ response[i].n = 0
        /\ grid = RepoCards(0)

----------------------------------------------------------------------------
(* fetchRecentFigmaFiles *)

\* C11: when fetchRecentFigmaFiles has finished and the team-projects request or
\* any per-project files request has failed (fetch rejected, body unusable, no
\* projects or files array), #design-projects shows the error message, and the
\* function has returned normally.
C11_FailureShowsError ==
    (figmaPc = "done" /\ figmaLog # {}) => designGrid.kind = "error"

Count(seq, t) == Cardinality({i \in DOMAIN seq : seq[i] = t})

\* C12: fetchRecentFigmaFiles renders min(5, number of files) cards, they are files
\* of the projects, no file left out is more recent than a rendered one, and the
\* cards are in descending order of last_modified.
C12_RecentFiles ==
    (figmaPc = "done" /\ designGrid.kind = "cards") =>
        LET cards == designGrid.cards
        IN  /\ Len(cards) = Min(RECENT_FILES, Len(allFiles))
            /\ \A t \in Stamps : Count(cards, t) <= Count(allFiles, t)
            /\ \A t \in Stamps : Count(cards, t) < Count(allFiles, t)
                                    => \A i \in DOMAIN cards : cards[i] >= t
            /\ \A i, j \in DOMAIN cards : i < j => cards[i] >= cards[j]

\* More than five files arrived, out of order, and five cards of different ages
\* were rendered.
C12_Witness ==
    /\ figmaPc = "done"
    /\ designGrid.kind = "cards"
    /\ Len(allFiles) > RECENT_FILES
    /\ Len(designGrid.cards) = RECENT_FILES
    /\ \E i, j \in DOMAIN allFiles : i < j /\ allFiles[i] < allFiles[j]
    /\ designGrid.cards[1] > designGrid.cards[RECENT_FILES]

----------------------------------------------------------------------------
(* page load *)

\* C13: fetchGitHubRepos sends at most one GET to the repository API per page
\* load, exactly one once the DOMContentLoaded listeners have run, and none after
\* a failure.
C13_OneRequestPerLoad ==
    /\ requests <= 1
    /\ Loaded => requests = 1

\* C14: on a page without #projects-grid fetchGitHubRepos sends no request, changes
\* nothing and its promise is not rejected; on a page without #design-projects the
\* same holds of fetchRecentFigmaFiles.
C14_AbsentContainerNoOp ==
    /\ ~gridExists =>
          /\ requests = 0
          /\ grid.kind = "static"
          /\ \A i \in Invocations : pc[i] \in {"start", "returned"}
    /\ ~designExists =>
          /\ designGrid = DesignStatic
          /\ figmaPc \in {"start", "returned"}

----------------------------------------------------------------------------
(* CanvasAnimationController: labels *)

\* C15: once every term of the vocabulary has been placed, the set of used terms
\* is eventually emptied again (frames keep coming with the pointer far from the
\* last label), so that labels can be placed anew.
C15_EventualReset ==
    (usedWords = designTerms) ~> (usedWords = {})

\* C16: the used terms are terms of the vocabulary, at most 11 of them, and a label
\* is only ever placed for a term that has not been used since the last reset.
C16_UsedTerms ==
    /\ [](usedWords \subseteq designTerms /\ Cardinality(usedWords) <= 11)
    /\ [][renderedWords' # renderedWords =>
             \E text \in designTerms \ usedWords :
                 /\ renderedWords' = [renderedWords EXCEPT ![text] = @ + 1]
                 /\ usedWords' = usedWords \cup {text}]_vars

\* The whole vocabulary has been placed, each term once.
C16_Witness ==
    /\ usedWords = designTerms
    /\ \A t \in designTerms : renderedWords[t] = 1

DistanceSquared(a, b) ==
    (a[1] - b[1]) * (a[1] - b[1]) + (a[2] - b[2]) * (a[2] - b[2])

LabelTarget == <<mousePosition[1] + 30, mousePosition[2]>>

\* C17: a label is placed at least 150 px from the placement before it (the origin
\* for the first), and an attempt closer than that changes neither the labels, nor
\* the used terms, nor the last placement position.
C17_MinimumSpacing ==
    [][/\ renderedWords' # renderedWords =>
             /\ lastTextPosition' = LabelTarget
             /\ DistanceSquared(lastTextPosition', lastTextPosition) >= 150 * 150
       /\ (lastAttempt' \notin {"none", "skipped"}
              /\ DistanceSquared(LabelTarget, lastTextPosition) < 150 * 150) =>
             UNCHANGED <<renderedWords, usedWords, lastTextPosition>>]_vars

\* A label was placed exactly 150 px from the origin, and the next attempt, 134 px
\* from it, was turned down.
C17_Witness ==
    /\ lastTextPosition = <<90, 120>>
    /\ mousePosition = <<0, 0>>
    /\ lastAttempt = "tooClose"
    /\ Cardinality(usedWords) = 1

----------------------------------------------------------------------------
(* ScrollObserverController: parallax *)

\* C18: whatever the number of scroll events since the last frame, the frame
\* recomputes the parallax transforms at most once, and it gives every layer the
\* offset scrollY * depth, with depth 0.1 for a layer without data-depth.
C18_ParallaxOncePerFrame ==
    [][parallaxCallbacks' < parallaxCallbacks =>
          /\ recomputations' <= 1
          /\ layerTransform'["configured"] = Rat(scrollY, 2)
          /\ layerTransform'["plain"] = Rat(scrollY, 10)]_vars

----------------------------------------------------------------------------
(* Split pane: viewport resizes during a drag *)

\* C19: while the controller is Dragging, viewport resizes and drag-moves in any
\* order leave it Dragging, and after a drag-move the two sizes on the active axis
\* are the bounded percentage of that move's pointer position over the container
\* extent and its complement, whatever came before.
C19_LastMoveWins ==
    /\ []((isDragging /\ lastEvent.type \in MoveEvents) =>
            LET e == lastEvent
                pointer == IF isDesktopViewport THEN e.clientX ELSE e.clientY
                bounded == getBoundedPercentage(Rat(pointer * 100, e.extent))
            IN  /\ ActivePrimary = Css(bounded, ActiveUnit)
                /\ ActiveSecondary = Css(RSub(Hundred, bounded), ActiveUnit))
    /\ [][(isDragging /\ lastEvent'.type \in MoveEvents \cup {"resize"}) =>
             isDragging']_vars

\* A touch drag begun below the breakpoint (row-resize cursor, drag-start values
\* recorded by the touch listeners) went through a resize to the desktop width and
\* then a drag-move that set the widths.
C19_Witness ==
    /\ isDragging
    /\ touchIsDragging
    /\ bodyCursor = "row-resize"
    /\ isDesktopViewport
    /\ lastEvent.type = "touchmove"
    /\ primarySection.width = Css(Rat(50, 1), "%")
    /\ primarySection.height.u = "px"

----------------------------------------------------------------------------
(* Profile modal *)

HiddenWithoutPose == "hidden" \in modalClasses /\ ~(PoseClasses \subseteq modalClasses)

\* C20: whatever the order of toggleProfileImage calls, pending frame callbacks of
\* openings and pending timers of closings, no step leaves the modal with the class
\* hidden but without translate-y-full and opacity-0.
C20_HiddenKeepsPose ==
    [][HiddenWithoutPose' => HiddenWithoutPose]_vars

----------------------------------------------------------------------------
(* Two invocations of fetchGitHubRepos in flight *)

\* C21: with the two invocations of a page load in flight, the grid shows what the
\* invocation processed last has written, in every completion order: its cards if
\* its response was 2xx with an array, its error block otherwise, whatever the
\* other invocation wrote before.
C21_LastProcessedWins ==
    processed # << >> =>
        LET r == response[processed[Len(processed)]]
            success == /\ r.outcome = "resolved"
                       /\ r.status >= 200 /\ r.status <= 299
                       /\ r.body = "array"
        IN  /\ success => grid.kind = "cards" /\ grid.cards = r.n
            /\ ~success => grid.kind = "error" /\ grid.cards = 0

\* The second invocation succeeded first with cards, then the first one failed:
\* the cards are gone.
C21_Witness ==
    /\ processed = <<2, 1>>
    /\ response[2].outcome = "resolved"
    /\ response[2].body = "array"
    /\ response[2].n > 0
    /\ response[1].outcome = "rejected"
    /\ grid.kind = "error"

----------------------------------------------------------------------------
(* CanvasAnimationController: dots and animation loop *)

\* The offset of a dot from the pointer, in units of 1/DotUnit px.
OffsetX(dot) == mousePosition[1] * DotUnit - dot.x
OffsetY(dot) == mousePosition[2] * DotUnit - dot.y

AtPointer(dot) == OffsetX(dot) = 0 /\ OffsetY(dot) = 0

\* The Euclidean distance of dot a to the pointer is smaller than that of dot b.
\* Offsets that shrink or grow together are compared one by one; the squares are
\* only needed when one offset shrinks while the other grows.
Closer(a, b) ==
    LET ax == Abs(OffsetX(a))
        ay == Abs(OffsetY(a))
        bx == Abs(OffsetX(b))
        by == Abs(OffsetY(b))
    IN  CASE ax <= bx /\ ay <= by -> ax < bx \/ ay < by
          [] ax >= bx /\ ay >= by -> FALSE
          [] OTHER -> ax * ax + ay * ay < bx * bx + by * by

\* C22 (as claimed): there are always 5 dots, and every animation frame brings each
\* of them strictly closer to the pointer position it finds.
C22_DotsApproach ==
    /\ [](Len(dots) = 5)
    /\ [][dotFrames' # dotFrames =>
             \A j \in 1..5 : Closer(dots'[j], dots[j])]_vars

\* C22 (amended): there are always 5 dots; every animation frame brings each dot
\* that is away from the pointer strictly closer to it, its offset on both axes
\* becoming (1 - speed) = (46 - j)/50 of what it was for dot j, and leaves a dot
\* that is on the pointer where it is.
C22_DotsApproachUnlessThere ==
    /\ [](Len(dots) = 5)
    /\ [][dotFrames' # dotFrames =>
             \A j \in 1..5 :
                 /\ ~AtPointer(dots[j]) => Closer(dots'[j], dots[j])
                 /\ AtPointer(dots[j]) => dots'[j] = dots[j]
                 /\ OffsetX(dots'[j]) = (OffsetX(dots[j]) \div 50) * (46 - j)
                 /\ OffsetY(dots'[j]) = (OffsetY(dots[j]) \div 50) * (46 - j)
                 /\ OffsetX(dots[j]) % 50 = 0 /\ OffsetY(dots[j]) % 50 = 0]_vars

\* Two frames have run, the pointer having moved in between; no dot is on the
\* pointer and the faster a dot, the nearer it is on both axes.
C22_Witness ==
    /\ dotFrames = 2
    /\ mousePosition = <<60, 120>>
    /\ \A j \in 1..5 : /\ dots[j].x < 60 * DotUnit /\ dots[j].y < 120 * DotUnit
                        /\ dots[j].x * 2 > dots[j].y
    /\ \A j \in 1..4 : /\ Abs(OffsetX(dots[j + 1])) < Abs(OffsetX(dots[j]))
                        /\ Abs(OffsetY(dots[j + 1])) < Abs(OffsetY(dots[j]))

\* C24: from the start of the animation on exactly one animateFrame callback is
\* pending in every state, every frame leaving exactly one for the next, and a frame
\* runs update dots, draw dots, word generation, draw words, in this order.
C24_OnePendingFrame ==
    /\ pendingFrames = 1
    /\ \E a, b, c, d \in DOMAIN frameSteps :
          /\ a < b /\ b < c /\ c < d
          /\ frameSteps[a] = "updateDots"
          /\ frameSteps[b] = "drawDots"
          /\ frameSteps[c] = "handleWordGeneration"
          /\ frameSteps[d] = "drawWords"

\* The loop has gone round twice and still has one callback pending.
C24_Witness ==
    /\ dotFrames = 2
    /\ pendingFrames = 1

----------------------------------------------------------------------------
(* CanvasAnimationController: label opacity *)

\* C23: no label ever leaves the list; a label enters it with alpha 0 and every
\* frame, the one that places it included, adds 0.05 to its alpha while that is
\* below 1; alpha never decreases and stays at 1 once it is there. (Steps that
\* leave the pointer where it is are the animation frames.)
C23_LabelFadeIn ==
    [][/\ Len(labelAlpha') >= Len(labelAlpha)
       /\ Len(labelAlpha') <= Len(labelAlpha) + 1
       /\ \A i \in DOMAIN labelAlpha' :
             LET before == IF i \in DOMAIN labelAlpha THEN labelAlpha[i] ELSE 0
             IN  /\ labelAlpha'[i] >= before
                 /\ labelAlpha'[i] <= 20
                 /\ before = 20 => labelAlpha'[i] = 20
                 /\ (mousePosition' = mousePosition /\ before < 20) =>
                        labelAlpha'[i] = before + 1
                 /\ mousePosition' # mousePosition => labelAlpha'[i] = before]_vars

\* The first label has reached full opacity and stayed there while the second,
\* placed later, is still fading in.
C23_Witness ==
    /\ Len(labelAlpha) = 2
    /\ labelAlpha[1] = 20
    /\ labelAlpha[2] = 1
    /\ Cardinality(usedWords) = 2

----------------------------------------------------------------------------
(* ScrollObserverController: reveal sections *)

\* C25: a reveal section gets the class active only in an observer callback that
\* reports it as intersecting, and a section that has the class keeps it through
\* every later callback, also one that reports it as no longer intersecting.
C25_ActiveOneWay ==
    [][/\ \A section \in activeSections' \ activeSections :
             lastEntries'[section] = "intersecting"
       /\ activeSections \subseteq activeSections']_vars

\* A section that is active has just been reported as no longer intersecting.
C25_Witness ==
    \E section \in RevealSections :
        /\ section \in activeSections
        /\ lastEntries[section] = "notIntersecting"

----------------------------------------------------------------------------
(* Split pane: cursor across the breakpoint *)

\* C26: whenever the controller is Dragging, the cursor of the document body is
\* col-resize at viewport width >= 1024 and row-resize below, also after the
\* viewport has crossed 1024 px during the drag.
C26_CursorMatchesAxis ==
    isDragging => bodyCursor = IF innerWidth >= 1024 THEN "col-resize" ELSE "row-resize"

----------------------------------------------------------------------------
(* Mobile view switch *)

\* C27: once the toggle button has been clicked, one of #dev-section and
\* #design-section has display none and the other display block, the button names
\* the portfolio that is hidden, and every further click swaps the two.
C27_ToggleShowsOne ==
    /\ [](hasClicked =>
            \/ /\ designDisplay = "none" /\ devDisplay = "block"
               /\ toggleLabel = "Switch to UI/UX Portfolio"
            \/ /\ designDisplay = "block" /\ devDisplay = "none"
               /\ toggleLabel = "Switch to Dev Portfolio")
    /\ [][(hasClicked /\ lastEvent'.type = "click") =>
             /\ designDisplay' = devDisplay
             /\ devDisplay' = designDisplay
             /\ designDisplay' # designDisplay]_vars

\* The design section is shown again, the dev section hidden, after two clicks or
\* more, with a viewport resize since the last one.
C27_Witness ==
    /\ hasClicked
    /\ designDisplay = "block"
    /\ devDisplay = "none"
    /\ lastEvent.type = "resize"

====
